---------------------------- MODULE Spec2Model ----------------------------
(***************************************************************************)
(* Model of src/src/main.rs: the Pile unit (one task collection in stack   *)
(* or queue mode) and the PileRegistry unit (id counter and id -> handle   *)
(* mapping), both lunatic abstract processes.                              *)
(*                                                                         *)
(* A handle (ProcessRef<Pile>) is the index of the unit in procs; a pile   *)
(* id is the registry's counter value at creation.  Option values are      *)
(* sequences: None is <<>>, Some(x) is <<x>>.                              *)
(*                                                                         *)
(* counter is a u32 in the source; every specification here keeps it below *)
(* MaxPiles, far under 2^32, so the increment never overflows.             *)
(***************************************************************************)
EXTENDS Integers, Sequences, FiniteSets, TLC

\* ------------------------------------------------------------- bounds
MaxPiles == 2
MaxHeld == 2
MaxOps == 6
MaxBox == 2
MaxArrived == 4

\* ------------------------------------------------------------- inputs
TaskIds == {1, 2}
Tasks == [id : TaskIds, title : {"t"}, description : {""}]
\* The bodies callers send to create a pile (struct CreatePileDTO).
CreatePileDTOs ==
  {[name |-> "work", description |-> "", is_stack |-> TRUE],
   [name |-> "home", description |-> "chores", is_stack |-> FALSE]}
PileIds == 0 .. MaxPiles

\* The program's state:
\*   regStatus, counter, piles   the PileRegistry process and its fields
\*   procs                       the Pile processes, by handle
\*   mbox                        each unit's mailbox of pending requests
\* History kept for stating the claims:
\*   killed    handles of piles that ended without delete_pile
\*   deleted   ids whose entry a delete_pile removed
\*   last      the last request handled and its reply
\*   issued    the (id, handle) pairs create_pile returned, in order
\*   hist      per pile, the push_task and complete_current calls handled
\*   arrived   per unit, every request in the order it reached the mailbox
\*   replies   per unit, the replies given, in order
VARIABLES regStatus, counter, piles, procs, killed, deleted, last, issued,
          hist, mbox, arrived, replies

vars == <<regStatus, counter, piles, procs, killed, deleted, last, issued,
          hist, mbox, arrived, replies>>

\* ------------------------------------------------------------- values
None == <<>>
Some(x) == <<x>>
Unit == <<>>
Panic == <<"panic", "Result::unwrap()", "Err">>
Registry == 0
Units == Registry .. MaxPiles

\* VecDeque operations used by Pile
pop_back(q) ==
  IF q = <<>> THEN [ret |-> None, tasks |-> q]
  ELSE [ret |-> Some(q[Len(q)]), tasks |-> SubSeq(q, 1, Len(q) - 1)]

pop_front(q) ==
  IF q = <<>> THEN [ret |-> None, tasks |-> q]
  ELSE [ret |-> Some(Head(q)), tasks |-> Tail(q)]

push_back(q, t) == Append(q, t)

back(q) == IF q = <<>> THEN None ELSE Some(q[Len(q)])

front(q) == IF q = <<>> THEN None ELSE Some(Head(q))

\* ------------------------------------------------------------- Pile
\* Pile::init: the unit starts Running with the given info and no tasks.
PileInit(info) == [status |-> "Running", info |-> info, tasks |-> <<>>]

\* A killed process: it stops and its memory (the tasks) is dropped.
Kill(p) == [p EXCEPT !.status = "Terminated", !.tasks = <<>>]

complete_current_fifo(p) ==
  LET r == pop_front(p.tasks)
  IN [pile |-> [p EXCEPT !.tasks = r.tasks], ret |-> r.ret]

complete_current_lifo(p) ==
  LET r == pop_back(p.tasks)
  IN [pile |-> [p EXCEPT !.tasks = r.tasks], ret |-> r.ret]

complete_current_unwrap(p) ==
  IF p.tasks = <<>> THEN [pile |-> Kill(p), ret |-> Panic]
  ELSE complete_current_lifo(p)

\* Pile::complete_current: pop the tail in stack mode, the head otherwise.
complete_current(p) ==
  LET r == IF p.info.is_stack THEN pop_back(p.tasks) ELSE pop_front(p.tasks)
  IN [pile |-> [p EXCEPT !.tasks = r.tasks], ret |-> r.ret]

push_task_front(p, new_task) ==
  [pile |-> [p EXCEPT !.tasks = <<new_task>> \o @], ret |-> Unit]

\* Pile::push_task: append at the tail.
push_task(p, new_task) ==
  [pile |-> [p EXCEPT !.tasks = push_back(@, new_task)], ret |-> Unit]

pile_top_popping(p) == complete_current(p)

pile_top_front(p) == [pile |-> p, ret |-> front(p.tasks)]

\* Pile::pile_top: a copy of the task at the removal end; &self, no change.
pile_top(p) ==
  [pile |-> p,
   ret |-> IF p.info.is_stack THEN back(p.tasks) ELSE front(p.tasks)]

\* ------------------------------------------------------------- PileRegistry
\* The registry handlers act on the registry's fields and, by starting and
\* killing units, on procs: w is [regStatus, counter, piles, procs].
World == [regStatus |-> regStatus, counter |-> counter, piles |-> piles,
          procs |-> procs]

\* PileRegistry::init: Self::default()
RegistryInit == [regStatus |-> "Running", counter |-> 0, piles |-> <<>>,
                 procs |-> <<>>]

Insert(m, k, v) == [x \in DOMAIN m \cup {k} |-> IF x = k THEN v ELSE m[x]]

Remove(m, k) == [x \in DOMAIN m \ {k} |-> m[x]]

create_pile_preincrement(w, name, description, is_stack, started) ==
  LET id == w.counter + 1
      info == [id |-> id, name |-> name, description |-> description,
               is_stack |-> is_stack]
      process_ref == Len(w.procs) + 1
  IN IF started
     THEN [w |-> [w EXCEPT !.counter = id,
                           !.procs = Append(@, PileInit(info)),
                           !.piles = Insert(@, id, process_ref)],
           ret |-> <<info, process_ref>>]
     ELSE [w |-> [w EXCEPT !.counter = id, !.regStatus = "Terminated"],
           ret |-> Panic]

\* PileRegistry::create_pile.  started is the outcome of Pile::start: on Err
\* the unwrap() panics after the counter was advanced, which ends the
\* registry process; its fields are kept as they were at the panic.
create_pile(w, name, description, is_stack, started) ==
  LET id == w.counter
      info == [id |-> id, name |-> name, description |-> description,
               is_stack |-> is_stack]
      process_ref == Len(w.procs) + 1
  IN IF started
     THEN [w |-> [w EXCEPT !.counter = id + 1,
                           !.procs = Append(@, PileInit(info)),
                           !.piles = Insert(@, id, process_ref)],
           ret |-> <<info, process_ref>>]
     ELSE [w |-> [w EXCEPT !.counter = id + 1, !.regStatus = "Terminated"],
           ret |-> Panic]

get_pile_take(w, pile_id) ==
  [w |-> [w EXCEPT !.piles = Remove(@, pile_id)],
   ret |-> IF pile_id \in DOMAIN w.piles THEN Some(w.piles[pile_id]) ELSE None]

\* PileRegistry::get_pile
get_pile(w, pile_id) ==
  [w |-> w,
   ret |-> IF pile_id \in DOMAIN w.piles THEN Some(w.piles[pile_id]) ELSE None]

delete_pile_reuse(w, pile_id) ==
  IF pile_id \in DOMAIN w.piles
  THEN [w |-> [w EXCEPT !.procs[w.piles[pile_id]] = Kill(@),
                        !.piles = Remove(@, pile_id),
                        !.counter = @ - 1],
        ret |-> Unit]
  ELSE [w |-> w, ret |-> Unit]

delete_pile_keep(w, pile_id) ==
  IF pile_id \in DOMAIN w.piles
  THEN [w |-> [w EXCEPT !.procs[w.piles[pile_id]] = Kill(@)], ret |-> Unit]
  ELSE [w |-> w, ret |-> Unit]

delete_pile_all(w, pile_id) ==
  IF pile_id \in DOMAIN w.piles
  THEN [w |-> [w EXCEPT !.procs = [h \in DOMAIN w.procs |-> Kill(w.procs[h])],
                        !.piles = <<>>],
        ret |-> Unit]
  ELSE [w |-> w, ret |-> Unit]

delete_pile_unlink(w, pile_id) ==
  [w |-> [w EXCEPT !.piles = Remove(@, pile_id)], ret |-> Unit]

delete_pile_unwrap(w, pile_id) ==
  IF pile_id \in DOMAIN w.piles
  THEN [w |-> [w EXCEPT !.procs[w.piles[pile_id]] = Kill(@),
                        !.piles = Remove(@, pile_id)],
        ret |-> Unit]
  ELSE [w |-> [w EXCEPT !.regStatus = "Terminated"], ret |-> Panic]

\* PileRegistry::delete_pile: kill the unit, then remove its entry.
delete_pile(w, pile_id) ==
  IF pile_id \in DOMAIN w.piles
  THEN [w |-> [w EXCEPT !.procs[w.piles[pile_id]] = Kill(@),
                        !.piles = Remove(@, pile_id)],
        ret |-> Unit]
  ELSE [w |-> w, ret |-> Unit]

handle_link_death_reconcile(w, tag) ==
  [w EXCEPT !.piles = [id \in {x \in DOMAIN w.piles : w.piles[x] # tag}
                         |-> w.piles[id]]]

\* PileRegistry::handle_link_death: prints, changes no field.
handle_link_death(w, tag) == w

\* ------------------------------------------------------------- helpers
RECURSIVE SumLen(_, _)
SumLen(ps, n) == IF n = 0 THEN 0 ELSE Len(ps[n].tasks) + SumLen(ps, n - 1)

Held == SumLen(procs, Len(procs))

Handles == DOMAIN procs

Running(h) == h \in Handles /\ procs[h].status = "Running"

SetWorld(w) ==
  /\ regStatus' = w.regStatus
  /\ counter' = w.counter
  /\ piles' = w.piles
  /\ procs' = w.procs

body == <<regStatus, counter, piles, procs, killed, deleted, last, issued>>

mail == <<mbox, arrived, replies>>

\* ------------------------------------------------------------- Init
Init ==
  /\ regStatus = RegistryInit.regStatus
  /\ counter = RegistryInit.counter
  /\ piles = RegistryInit.piles
  /\ procs = RegistryInit.procs
  /\ killed = {}
  /\ deleted = {}
  /\ last = [unit |-> Registry, op |-> "init", arg |-> <<>>, ret |-> Unit]
  /\ issued = <<>>
  /\ hist = [h \in Units \ {Registry} |-> <<>>]
  /\ mbox = [u \in Units |-> <<>>]
  /\ arrived = [u \in Units |-> <<>>]
  /\ replies = [u \in Units |-> <<>>]

\* ------------------------------------------------------------- calls
\* A request handled by a Running unit: the handler and the reply (last.ret).
\* These actions leave hist and the mailboxes to the specification using them.

CreatePile(name, description, is_stack, started) ==
  /\ regStatus = "Running"
  /\ counter < MaxPiles                  \* the model's bound on piles created
  /\ LET r == create_pile(World, name, description, is_stack, started)
     IN /\ SetWorld(r.w)
        /\ last' = [unit |-> Registry, op |-> "create_pile",
                    arg |-> <<name, description, is_stack, started>>,
                    ret |-> r.ret]
        /\ issued' = IF started
                     THEN Append(issued, [id |-> r.ret[1].id,
                                          handle |-> r.ret[2]])
                     ELSE issued
  /\ UNCHANGED <<killed, deleted>>

GetPile(pile_id) ==
  /\ regStatus = "Running"
  /\ LET r == get_pile(World, pile_id)
     IN /\ SetWorld(r.w)
        /\ last' = [unit |-> Registry, op |-> "get_pile", arg |-> <<pile_id>>,
                    ret |-> r.ret]
  /\ UNCHANGED <<killed, deleted, issued>>

DeletePile(pile_id) ==
  /\ regStatus = "Running"
  /\ LET r == delete_pile(World, pile_id)
     IN /\ SetWorld(r.w)
        /\ last' = [unit |-> Registry, op |-> "delete_pile",
                    arg |-> <<pile_id>>, ret |-> r.ret]
  /\ deleted' = IF pile_id \in DOMAIN piles THEN deleted \cup {pile_id}
                ELSE deleted
  /\ UNCHANGED <<killed, issued>>

PushTask(h, new_task) ==
  /\ Running(h)
  /\ LET r == push_task(procs[h], new_task)
     IN /\ procs' = [procs EXCEPT ![h] = r.pile]
        /\ last' = [unit |-> h, op |-> "push_task", arg |-> <<new_task>>,
                    ret |-> r.ret]
  /\ UNCHANGED <<regStatus, counter, piles, killed, deleted, issued>>

CompleteCurrent(h) ==
  /\ Running(h)
  /\ LET r == complete_current(procs[h])
     IN /\ procs' = [procs EXCEPT ![h] = r.pile]
        /\ last' = [unit |-> h, op |-> "complete_current", arg |-> <<>>,
                    ret |-> r.ret]
  /\ UNCHANGED <<regStatus, counter, piles, killed, deleted, issued>>

PileTop(h) ==
  /\ Running(h)
  /\ LET r == pile_top(procs[h])
     IN /\ procs' = [procs EXCEPT ![h] = r.pile]
        /\ last' = [unit |-> h, op |-> "pile_top", arg |-> <<>>, ret |-> r.ret]
  /\ UNCHANGED <<regStatus, counter, piles, killed, deleted, issued>>

\* A Pile unit ends without delete_pile (a kill through its public handle,
\* a trap).  The registry's handle_link_death only prints: the mapping and
\* the counter stay as they are.
PileDies(h) ==
  /\ Running(h)
  /\ SetWorld(handle_link_death([World EXCEPT !.procs[h] = Kill(@)], h))
  /\ killed' = killed \cup {h}
  /\ last' = [unit |-> h, op |-> "died", arg |-> <<>>, ret |-> Unit]
  /\ UNCHANGED <<deleted, issued>>

\* ------------------------------------------------------------- Spec
\* The registry and its piles, every request handled as it is made.
Next ==
  \/ \E dto \in CreatePileDTOs, started \in BOOLEAN :
       CreatePile(dto.name, dto.description, dto.is_stack, started)
         /\ UNCHANGED <<hist, mail>>
  \/ \E pile_id \in PileIds : GetPile(pile_id) /\ UNCHANGED <<hist, mail>>
  \/ \E pile_id \in PileIds : DeletePile(pile_id) /\ UNCHANGED <<hist, mail>>
  \/ \E h \in Handles, t \in Tasks :
       Held < MaxHeld /\ PushTask(h, t) /\ UNCHANGED <<hist, mail>>
  \/ \E h \in Handles : CompleteCurrent(h) /\ UNCHANGED <<hist, mail>>
  \/ \E h \in Handles : PileTop(h) /\ UNCHANGED <<hist, mail>>
  \/ \E h \in Handles : PileDies(h) /\ UNCHANGED <<hist, mail>>

Spec == Init /\ [][Next]_vars

\* ------------------------------------------------------------- SpecPile
\* One Pile unit, from the state right after the registry created it, with
\* the push_task and complete_current calls it handled kept in hist.
Logged(h, op, arg) ==
  hist' = [hist EXCEPT ![h] = Append(@, [op |-> op, arg |-> arg,
                                          ret |-> last'.ret])]

InitPile ==
  \E dto \in CreatePileDTOs :
    LET r == create_pile(RegistryInit, dto.name, dto.description,
                         dto.is_stack, TRUE)
    IN /\ regStatus = r.w.regStatus
       /\ counter = r.w.counter
       /\ piles = r.w.piles
       /\ procs = r.w.procs
       /\ killed = {}
       /\ deleted = {}
       /\ last = [unit |-> Registry, op |-> "create_pile",
                  arg |-> <<dto.name, dto.description, dto.is_stack, TRUE>>,
                  ret |-> r.ret]
       /\ issued = <<[id |-> r.ret[1].id, handle |-> r.ret[2]]>>
       /\ hist = [h \in Units \ {Registry} |-> <<>>]
       /\ mbox = [u \in Units |-> <<>>]
       /\ arrived = [u \in Units |-> <<>>]
       /\ replies = [u \in Units |-> <<>>]

NextPile ==
  \/ \E h \in Handles, t \in Tasks :
       Len(hist[h]) < MaxOps /\ PushTask(h, t)
         /\ Logged(h, "push_task", <<t>>) /\ UNCHANGED mail
  \/ \E h \in Handles :
       Len(hist[h]) < MaxOps /\ CompleteCurrent(h)
         /\ Logged(h, "complete_current", <<>>) /\ UNCHANGED mail
  \/ \E h \in Handles : PileTop(h) /\ UNCHANGED <<hist, mail>>

SpecPile == InitPile /\ [][NextPile]_vars

\* ------------------------------------------------------------- SpecMailbox
\* The units as abstract processes: callers' requests reach a unit's mailbox
\* in some order, and the unit takes them from it one at a time, running the
\* handler to its end and replying before it takes the next.
RegRequests ==
  {[op |-> "create_pile",
    arg |-> <<dto.name, dto.description, dto.is_stack, started>>] :
     dto \in CreatePileDTOs, started \in BOOLEAN}
  \cup {[op |-> "get_pile", arg |-> <<id>>] : id \in PileIds}
  \cup {[op |-> "delete_pile", arg |-> <<id>>] : id \in PileIds}

PileRequests ==
  {[op |-> "push_task", arg |-> <<t>>] : t \in Tasks}
  \cup {[op |-> "complete_current", arg |-> <<>>],
        [op |-> "pile_top", arg |-> <<>>]}

RECURSIVE SumArrived(_)
SumArrived(u) ==
  Len(arrived[u]) + (IF u = Registry THEN 0 ELSE SumArrived(u - 1))

Arrivals == SumArrived(MaxPiles)

Creates(log) == Cardinality({i \in 1 .. Len(log) : log[i].op = "create_pile"})

DequeueNewest(q) == [msg |-> q[Len(q)], rest |-> SubSeq(q, 1, Len(q) - 1)]

\* The unit takes the oldest request of its mailbox.
Dequeue(q) == [msg |-> Head(q), rest |-> Tail(q)]

\* A caller's request reaches the mailbox of a unit.  A caller that kept the
\* handle of a pile can still send through it after the pile has ended; such
\* a request stays unhandled.
SendRegistry(req) ==
  /\ regStatus = "Running"
  /\ Arrivals < MaxArrived
  /\ Len(mbox[Registry]) < MaxBox
  /\ (req.op = "create_pile") => (Creates(arrived[Registry]) < MaxPiles)
  /\ mbox' = [mbox EXCEPT ![Registry] = Append(@, req)]
  /\ arrived' = [arrived EXCEPT ![Registry] = Append(@, req)]
  /\ UNCHANGED <<body, hist, replies>>

SendPile(h, req) ==
  /\ h \in Handles
  /\ Arrivals < MaxArrived
  /\ Len(mbox[h]) < MaxBox
  /\ mbox' = [mbox EXCEPT ![h] = Append(@, req)]
  /\ arrived' = [arrived EXCEPT ![h] = Append(@, req)]
  /\ UNCHANGED <<body, hist, replies>>

\* The registry handles the next request of its mailbox and replies.
RegistryHandle ==
  /\ mbox[Registry] # <<>>
  /\ LET d == Dequeue(mbox[Registry])
         req == d.msg
     IN /\ \/ /\ req.op = "create_pile"
              /\ CreatePile(req.arg[1], req.arg[2], req.arg[3], req.arg[4])
           \/ req.op = "get_pile" /\ GetPile(req.arg[1])
           \/ req.op = "delete_pile" /\ DeletePile(req.arg[1])
        /\ mbox' = [mbox EXCEPT ![Registry] = d.rest]
        /\ replies' = [replies EXCEPT ![Registry] = Append(@, last'.ret)]
  /\ UNCHANGED <<arrived, hist>>

\* A pile handles the next request of its mailbox and replies.
PileHandle(h) ==
  /\ mbox[h] # <<>>
  /\ LET d == Dequeue(mbox[h])
         req == d.msg
     IN /\ \/ req.op = "push_task" /\ PushTask(h, req.arg[1])
           \/ req.op = "complete_current" /\ CompleteCurrent(h)
           \/ req.op = "pile_top" /\ PileTop(h)
        /\ mbox' = [mbox EXCEPT ![h] = d.rest]
        /\ replies' = [replies EXCEPT ![h] = Append(@, last'.ret)]
  /\ UNCHANGED <<arrived, hist>>

NextMailbox ==
  \/ \E req \in RegRequests : SendRegistry(req)
  \/ \E h \in Handles, req \in PileRequests : SendPile(h, req)
  \/ RegistryHandle
  \/ \E h \in Handles : PileHandle(h)

SpecMailbox == Init /\ [][NextMailbox]_vars

\* The requests applied one after the other, each handler run to its end.
PileApply(p, req) ==
  CASE req.op = "push_task" -> push_task(p, req.arg[1])
    [] req.op = "complete_current" -> complete_current(p)
    [] req.op = "pile_top" -> pile_top(p)

RegistryApply(w, req) ==
  CASE req.op = "create_pile" ->
         create_pile(w, req.arg[1], req.arg[2], req.arg[3], req.arg[4])
    [] req.op = "get_pile" -> get_pile(w, req.arg[1])
    [] req.op = "delete_pile" -> delete_pile(w, req.arg[1])

RECURSIVE PileSequential(_, _)
PileSequential(p, reqs) ==
  IF reqs = <<>> THEN [pile |-> p, rets |-> <<>>]
  ELSE LET r == PileApply(p, Head(reqs))
           rest == PileSequential(r.pile, Tail(reqs))
       IN [pile |-> rest.pile, rets |-> <<r.ret>> \o rest.rets]

RECURSIVE RegistrySequential(_, _)
RegistrySequential(w, reqs) ==
  IF reqs = <<>> THEN [w |-> w, rets |-> <<>>]
  ELSE LET r == RegistryApply(w, Head(reqs))
           rest == RegistrySequential(r.w, Tail(reqs))
       IN [w |-> rest.w, rets |-> <<r.ret>> \o rest.rets]

\* ------------------------------------------------------------- claims
NPush(log) == Cardinality({i \in 1 .. Len(log) : log[i].op = "push_task"})

\* log is some push_task calls followed only by complete_current calls
PushesThenCompletes(log) ==
  \A i \in 1 .. Len(log) : (i <= NPush(log)) <=> (log[i].op = "push_task")

\* C1: on a stack-mode pile that starts empty, after n push_task calls the
\* i-th of the following complete_current calls returns the (n+1-i)-th
\* pushed task: completions are the reverse of the push order.
C1_StackReversesPushOrder ==
  \A h \in Handles :
    (procs[h].info.is_stack /\ PushesThenCompletes(hist[h])) =>
      LET n == NPush(hist[h])
      IN \A i \in 1 .. n :
           (n + i <= Len(hist[h])) =>
             hist[h][n + i].ret = Some(hist[h][n + 1 - i].arg[1])

C1_Witness ==
  \E h \in Handles :
    /\ procs[h].info.is_stack
    /\ PushesThenCompletes(hist[h])
    /\ NPush(hist[h]) = 3
    /\ Len(hist[h]) = 6
    /\ hist[h][1].arg # hist[h][3].arg

\* C2: on a queue-mode pile that starts empty, after n push_task calls the
\* i-th of the following complete_current calls returns the i-th pushed
\* task: completions are in push order.
C2_QueueKeepsPushOrder ==
  \A h \in Handles :
    (~procs[h].info.is_stack /\ PushesThenCompletes(hist[h])) =>
      LET n == NPush(hist[h])
      IN \A i \in 1 .. n :
           (n + i <= Len(hist[h])) =>
             hist[h][n + i].ret = Some(hist[h][i].arg[1])

C2_Witness ==
  \E h \in Handles :
    /\ ~procs[h].info.is_stack
    /\ PushesThenCompletes(hist[h])
    /\ NPush(hist[h]) = 3
    /\ Len(hist[h]) = 6
    /\ hist[h][1].arg # hist[h][3].arg

\* C3: handling pile_top changes neither the tasks nor the info of the pile
\* (nor anything else of the program's state); a pile_top handled right
\* after it returns the same result, and complete_current returns what it
\* would have returned without it.
C3_PileTopReadOnly ==
  [][\A h \in Handles :
       (last'.op = "pile_top" /\ PileTop(h)) =>
         /\ procs' = procs
         /\ UNCHANGED <<regStatus, counter, piles>>
         /\ pile_top(procs'[h]).ret = last'.ret
         /\ complete_current(procs'[h]) = complete_current(procs[h])]_vars

C3_Witness ==
  /\ last.op = "pile_top"
  /\ last.ret # None
  /\ Len(procs[last.unit].tasks) >= 2
  /\ last.ret = Some(procs[last.unit].tasks[IF procs[last.unit].info.is_stack
                                           THEN Len(procs[last.unit].tasks)
                                           ELSE 1])

\* C7: complete_current and pile_top on a pile with no tasks return the
\* empty result in either mode; the pile stays Running with no tasks.
C7_EmptyPileGivesEmptyResult ==
  [][\A h \in Handles :
       (/\ procs[h].tasks = <<>>
        /\ \/ last'.op = "complete_current" /\ CompleteCurrent(h)
           \/ last'.op = "pile_top" /\ PileTop(h)) =>
         /\ last'.ret = None
         /\ procs'[h].status = "Running"
         /\ procs'[h].tasks = <<>>]_vars

\* an empty complete_current answered with the empty result, and a push_task
\* accepted right after it
C7_Witness ==
  \E h \in Handles :
    /\ procs[h].status = "Running"
    /\ \E i \in 1 .. Len(hist[h]) - 1 :
         /\ hist[h][i].op = "complete_current"
         /\ hist[h][i].ret = None
         /\ hist[h][i + 1].op = "push_task"
    /\ procs[h].tasks # <<>>

\* the ids create_pile has returned, and the handle returned with an id
Assigned == {issued[i].id : i \in 1 .. Len(issued)}

HandleOf(id) == issued[CHOOSE i \in 1 .. Len(issued) : issued[i].id = id].handle

\* C4: the ids create_pile returns are strictly increasing in the order the
\* registry handles the calls, so none is returned twice, whatever
\* delete_pile calls come in between.
C4_IdsStrictlyIncreasing ==
  \A i, j \in 1 .. Len(issued) : (i < j) => (issued[i].id < issued[j].id)

\* a create_pile handled after the most recently created id was deleted
C4_Witness ==
  /\ last.op = "create_pile"
  /\ Len(last.ret) = 2
  /\ Len(issued) = 2
  /\ issued[1].id \in deleted

\* C5: get_pile(id) returns the empty result when create_pile never returned
\* id or delete_pile removed it, and the handle create_pile returned with id
\* when that pile is live; it leaves the counter, the mapping and the piles
\* unchanged.
C5_GetPileLookup ==
  [][\A id \in PileIds :
       (last'.op = "get_pile" /\ GetPile(id)) =>
         /\ UNCHANGED <<regStatus, counter, piles, procs>>
         /\ (id \notin Assigned \/ id \in deleted) => (last'.ret = None)
         /\ (id \in Assigned /\ id \notin deleted /\ Running(HandleOf(id))) =>
              (last'.ret = Some(HandleOf(id)))]_vars

\* get_pile(1) answered with handle 2 after pile 0 was deleted
C5_Witness ==
  /\ last.op = "get_pile"
  /\ last.arg = <<1>>
  /\ last.ret = Some(2)
  /\ 0 \in deleted

\* C6 as stated: every handle in the mapping refers to a Running pile.
C6_MappedHandlesRunning ==
  \A id \in DOMAIN piles : Running(piles[id])

\* C6 as amended: every handle in the mapping refers to a pile that is
\* Running or that ended without delete_pile; delete_pile leaves no entry
\* for the unit it terminates.
C6_MappedRunningUnlessDiedOutsideDelete ==
  \A id \in DOMAIN piles : Running(piles[id]) \/ piles[id] \in killed

C6_Witness ==
  /\ deleted # {}
  /\ \E id \in DOMAIN piles : ~Running(piles[id])

\* C8 as stated: when Pile::start fails in create_pile the call fails, no
\* entry is added, the counter has advanced by one and the registry keeps
\* running with its other entries.
C8_StartFailureKeepsRegistry ==
  [][\A dto \in CreatePileDTOs :
       (/\ last'.op = "create_pile"
        /\ CreatePile(dto.name, dto.description, dto.is_stack, FALSE)) =>
         /\ last'.ret = Panic
         /\ piles' = piles
         /\ counter' = counter + 1
         /\ regStatus' = "Running"]_vars

PileOps == {"push_task", "complete_current", "pile_top"}

\* C11: delete_pile(id) for an id with no entry in the mapping returns
\* normally and leaves the registry (status, counter, mapping) and every
\* pile (status and tasks) unchanged.
C11_DeleteMissingIsNoOp ==
  [][\A id \in PileIds :
       (last'.op = "delete_pile" /\ id \notin DOMAIN piles /\ DeletePile(id)) =>
         /\ last'.ret = Unit
         /\ UNCHANGED <<regStatus, counter, piles, procs>>]_vars

\* delete_pile of a never-assigned id while a mapped pile holds tasks
C11_Witness ==
  /\ last.op = "delete_pile"
  /\ last.arg[1] \notin Assigned
  /\ regStatus = "Running"
  /\ \E id \in DOMAIN piles : procs[piles[id]].tasks # <<>>

\* C12: a pile is Running or Terminated; a Terminated pile stays as it is
\* and answers no push_task, complete_current or pile_top; a pile goes from
\* Running to Terminated only by delete_pile or by a termination from
\* outside, never by one of its own handlers.
C12_TerminatedAbsorbingExternal ==
  [][\A h \in Handles :
       /\ procs[h].status \in {"Running", "Terminated"}
       /\ (procs[h].status = "Terminated") =>
            /\ procs'[h] = procs[h]
            /\ ~(last'.unit = h /\ last'.op \in PileOps)
       /\ (procs[h].status = "Running" /\ procs'[h].status = "Terminated") =>
            (last'.op \in {"delete_pile", "died"})]_vars

\* one pile ended by delete_pile, another from outside, and the registry
\* handled a request afterwards
C12_Witness ==
  /\ \E h1, h2 \in Handles :
       /\ h1 \in killed
       /\ procs[h2].status = "Terminated"
       /\ h2 \notin killed
  /\ last.op = "get_pile"

\* C13: when a pile ends without delete_pile the registry's status, counter
\* and mapping are unchanged (the entry of the dead pile stays and get_pile
\* still returns its handle) and no other pile changes.
C13_AbnormalDeathIsIsolated ==
  [][\A h \in Handles :
       (last'.op = "died" /\ PileDies(h)) =>
         /\ UNCHANGED <<regStatus, counter, piles>>
         /\ \A h2 \in Handles \ {h} : procs'[h2] = procs[h2]
         /\ \A id \in DOMAIN piles :
              (get_pile(World, id).ret)' = Some(piles[id])]_vars

\* a mapped pile died while another pile holds tasks
C13_Witness ==
  /\ last.op = "died"
  /\ \E id \in DOMAIN piles : piles[id] = last.unit
  /\ \E h2 \in Handles \ {last.unit} : Running(h2) /\ procs[h2].tasks # <<>>

\* C14: once delete_pile(id) has returned, the entry of id is gone and the
\* pile is Terminated and holds nothing; from then on the pile's state never
\* changes and it gives no reply, so no push_task, complete_current or
\* pile_top sent through an old handle is applied or answered and the tasks
\* it held are never returned.
C14_DeletedPileNeverAnswers ==
  [][\A id \in deleted :
       LET h == HandleOf(id)
       IN /\ id \notin DOMAIN piles
          /\ procs[h].status = "Terminated"
          /\ procs[h].tasks = <<>>
          /\ procs'[h] = procs[h]
          /\ replies'[h] = replies[h]
          /\ ~(last'.unit = h /\ last'.op \in PileOps)]_vars

\* a deleted pile that had taken a task, with a request for that task
\* waiting at its old handle
C14_Witness ==
  \E id \in deleted :
    LET h == HandleOf(id)
    IN /\ \E i \in 1 .. Len(replies[h]) : arrived[h][i].op = "push_task"
       /\ ~(\E i \in 1 .. Len(replies[h]) :
              arrived[h][i].op = "complete_current")
       /\ mbox[h] # <<>>
       /\ Head(mbox[h]).op \in {"complete_current", "pile_top"}
       /\ last.op = "delete_pile"
       /\ last.arg = <<id>>

Max(S) == CHOOSE x \in S : \A y \in S : y <= x

Min(S) == CHOOSE x \in S : \A y \in S : x <= y

RECURSIVE Ascending(_)
Ascending(S) ==
  IF S = {} THEN <<>> ELSE <<Min(S)>> \o Ascending(S \ {Min(S)})

\* The pushes of log[1..n] (by position in log) not yet completed, when each
\* complete_current on a non-empty pile takes the most recent of them in
\* stack mode and the earliest otherwise.
RECURSIVE NotYetCompleted(_, _, _)
NotYetCompleted(log, n, is_stack) ==
  IF n = 0 THEN {}
  ELSE LET before == NotYetCompleted(log, n - 1, is_stack)
       IN IF log[n].op = "push_task" THEN before \cup {n}
          ELSE IF before = {} THEN {}
          ELSE before \ {IF is_stack THEN Max(before) ELSE Min(before)}

\* C15: over any interleaving of push_task and complete_current on a pile,
\* each complete_current on a non-empty pile removes exactly one task and
\* returns it: the most recently pushed task not yet completed in stack mode,
\* the earliest pushed one in queue mode (so no push is returned twice), and
\* the tasks left in the pile are the pushes not yet completed, in push order.
C15_InterleavedCompleteOrder ==
  \A h \in Handles :
    LET log == hist[h]
        is_stack == procs[h].info.is_stack
    IN /\ \A i \in 1 .. Len(log) :
            (log[i].op = "complete_current") =>
              LET before == NotYetCompleted(log, i - 1, is_stack)
                  after == NotYetCompleted(log, i, is_stack)
              IN IF before = {} THEN log[i].ret = None
                 ELSE /\ log[i].ret =
                           Some(log[IF is_stack THEN Max(before)
                                    ELSE Min(before)].arg[1])
                      /\ Cardinality(after) = Cardinality(before) - 1
       /\ LET left == Ascending(NotYetCompleted(log, Len(log), is_stack))
          IN procs[h].tasks = [k \in 1 .. Len(left) |-> log[left[k]].arg[1]]

\* push a, push b, complete, push a, complete on a stack: the second
\* complete returns the a pushed last and leaves the a pushed first
C15_Witness ==
  \E h \in Handles :
    /\ procs[h].info.is_stack
    /\ Len(hist[h]) = 5
    /\ [i \in 1 .. 5 |-> hist[h][i].op] =
         <<"push_task", "push_task", "complete_current", "push_task",
           "complete_current">>
    /\ hist[h][1].arg # hist[h][2].arg
    /\ hist[h][4].arg = hist[h][1].arg
    /\ Len(procs[h].tasks) = 1

\* C16: pile_top returns exactly what a complete_current handled right after
\* it on the same pile returns: the same task, or the empty result exactly
\* when complete_current gives the empty result.
C16_PileTopIsNextCompleted ==
  [][\A h \in Handles :
       /\ pile_top(procs[h]).ret = complete_current(procs[h]).ret
       /\ (/\ last.op = "pile_top"
           /\ last.unit = h
           /\ last'.op = "complete_current"
           /\ CompleteCurrent(h)) => (last'.ret = last.ret)]_vars

\* pile_top has answered on a pile holding two different tasks
C16_Witness ==
  \E h \in Handles :
    /\ last.op = "pile_top"
    /\ last.unit = h
    /\ Len(procs[h].tasks) >= 2
    /\ procs[h].tasks[1] # procs[h].tasks[Len(procs[h].tasks)]
    /\ last.ret = Some(procs[h].tasks[IF procs[h].info.is_stack
                                       THEN Len(procs[h].tasks) ELSE 1])

\* C17: the k-th create_pile a registry handles (k from 0, whatever
\* delete_pile calls came in between) returns a PileInfo with id k and the
\* caller's name, description and is_stack, together with the handle of a new
\* pile; on return the mapping holds k with that handle, the new pile is
\* Running with no tasks and the given info, and the earlier entries and
\* piles are unchanged.  k is Len(issued): a create_pile that does not return
\* ends the registry, so every earlier call handled has returned.
C17_KthCreateReturnsIdK ==
  [][\A dto \in CreatePileDTOs, started \in BOOLEAN :
       (/\ last'.op = "create_pile"
        /\ CreatePile(dto.name, dto.description, dto.is_stack, started)
        /\ last'.ret # Panic) =>
         LET k == Len(issued)
             info == last'.ret[1]
             handle == last'.ret[2]
         IN /\ info = [id |-> k, name |-> dto.name,
                       description |-> dto.description,
                       is_stack |-> dto.is_stack]
            /\ handle \notin Handles
            /\ DOMAIN piles' = DOMAIN piles \cup {k}
            /\ piles'[k] = handle
            /\ procs'[handle] =
                 [status |-> "Running", info |-> info, tasks |-> <<>>]
            /\ \A j \in DOMAIN piles : piles'[j] = piles[j]
            /\ \A h \in Handles : procs'[h] = procs[h]]_vars

\* the second create_pile returned id 1 after pile 0 had been deleted
C17_Witness ==
  /\ last.op = "create_pile"
  /\ last.ret # Panic
  /\ last.ret[1].id = 1
  /\ 0 \in deleted
  /\ 1 \in DOMAIN piles
  /\ piles[1] = last.ret[2]

\* C18: delete_pile(i) for a mapped id i removes only the entry of i and
\* terminates only pile i: the counter is unchanged, every other id keeps its
\* entry and handle, and every other pile keeps its status and tasks, so a
\* Running one stays Running and still takes requests.
C18_DeleteTouchesOnlyItsPile ==
  [][\A i \in DOMAIN piles :
       (last'.op = "delete_pile" /\ DeletePile(i)) =>
         /\ UNCHANGED <<regStatus, counter>>
         /\ DOMAIN piles' = DOMAIN piles \ {i}
         /\ \A j \in DOMAIN piles \ {i} : piles'[j] = piles[j]
         /\ procs'[piles[i]].status = "Terminated"
         /\ \A h \in Handles \ {piles[i]} :
              /\ procs'[h] = procs[h]
              /\ Running(h) =>
                   /\ Running(h)'
                   /\ \A t \in Tasks :
                        push_task(procs'[h], t).pile.tasks =
                          Append(procs[h].tasks, t)]_vars

\* pile 0 was deleted while pile 1, holding a task, stays mapped and Running
C18_Witness ==
  /\ last.op = "delete_pile"
  /\ last.arg = <<0>>
  /\ 0 \in deleted
  /\ 1 \in DOMAIN piles
  /\ Running(piles[1])
  /\ procs[piles[1]].tasks # <<>>

=============================================================================
